---- MODULE Spec2Model ----
(***************************************************************************)
(* Model of the auth front-end glue of next-supabase-auth:                 *)
(*   - src/lib/auth/AuthContext.tsx  AuthProvider (lines 1-179: the        *)
(*     provider with user state and the auth-state-change listener)        *)
(*   - src/lib/utils.ts              useFormFields                         *)
(*   - src/unnamed/part_000          IndexPage (the sign-up form page)     *)
(*                                                                         *)
(* JavaScript runs handlers to their first await in one task, and the      *)
(* continuation of an await runs as a microtask right after the promise    *)
(* settles, before any other task.  So each async function is two atomic   *)
(* steps: the part up to the await, and the settlement of the awaited      *)
(* promise together with the rest of the function.                         *)
(*                                                                         *)
(* The three pieces touch disjoint state, so each has its own              *)
(* specification: Spec (the listener), SpecCalls (signUp, signIn,          *)
(* signInWithGithub, signOut) and SpecForm (the form page).                *)
(***************************************************************************)
EXTENDS Naturals, Sequences, FiniteSets

\* ---------------------------------------------------------------- bounds
MaxNotifications == 2
MaxCalls == 2
MaxChanges == 3
MaxSubmits == 2

\* ------------------------------------------------------------ value sets
Null == "null"
Users == {"u1", "u2"}
Events == {"SIGNED_IN", "SIGNED_OUT"}

\* A Session is null, or an object whose user field is a User or null.
Sessions ==
    {[isNull |-> TRUE, user |-> Null]}
        \cup {[isNull |-> FALSE, user |-> u] : u \in Users \cup {Null}}

\* what the SDK and the user can hand to the operations
Payloads ==
    {[email |-> "a@x", password |-> "pw1"], [email |-> "b@x", password |-> ""]}
Errors == {"ApiError", "OAuthError"}
FieldNames == {"email", "password"}
FieldValues == {"", "a@x", "pw1"}

ROUTE_HOME == "ROUTE_HOME"
ROUTE_AUTH == "ROUTE_AUTH"

VARIABLES
    \* AuthProvider
    phase,        \* "constructed" | "mounted" | "unmounted"
    user,         \* useState<User>(null)
    userLoading,  \* useState(true)
    loggedIn,     \* useState(false)
    loading,      \* useState(false)
    currentUser,  \* what supabase.auth.user() returned at mount
    handlers,     \* the listener's invocations, in delivery order
    posts,        \* fetch requests made by setServerSession
    nav,          \* Router.push calls
    \* signUp / signIn / signInWithGithub / signOut
    calls,        \* invocations of the context's operations
    sdkCalls,     \* calls made on supabase.auth
    messages,     \* handleMessage calls
    \* IndexPage and useFormFields
    values,       \* the state cell of useFormFields
    rendered,     \* the `values` captured by the closures of the last render
    changes,      \* change events handled so far
    submits       \* form values shown on screen at each press of Sign Up

authVars == <<phase, user, userLoading, loggedIn, currentUser, handlers, posts, nav>>
callVars == <<loading, calls, sdkCalls, messages>>
formVars == <<values, rendered, changes, submits>>
vars == <<phase, user, userLoading, loggedIn, loading, currentUser, handlers,
          posts, nav, calls, sdkCalls, messages, values, rendered, changes,
          submits>>

\* ------------------------------------------------------- the listener
\* const user = session?.user! ?? null
SessionUser(session) == IF session.isNull THEN Null ELSE session.user

\* JSON.stringify({ event, session }): the members in the order written
JSONStringify(event, session) ==
    <<"{", "event", event, "session",
      IF session.isNull THEN <<"null">>
      ELSE <<"{", "user", session.user, "}">>, "}">>

NavTargetSwapped(u) == IF u # Null THEN ROUTE_AUTH ELSE ROUTE_HOME

\* the route the code pushes for a user: `if (user) ... else ...`
NavTarget(u) == IF u # Null THEN ROUTE_HOME ELSE ROUTE_AUTH

\* setServerSession up to its await: the fetch is issued
FetchRequest(h, event, session) ==
    [handler |-> h, url |-> "/api/auth", method |-> "POST",
     credentials |-> "same-origin", body |-> JSONStringify(event, session),
     status |-> "pending"]

\* the value the SignUp form is initialized with
FORM_VALUES == [email |-> "", password |-> ""]

Init ==
    /\ phase = "constructed"
    /\ user = Null
    /\ userLoading = TRUE
    /\ loggedIn = FALSE
    /\ loading = FALSE
    /\ currentUser = Null
    /\ handlers = <<>>
    /\ posts = <<>>
    /\ nav = <<>>
    /\ calls = <<>>
    /\ sdkCalls = <<>>
    /\ messages = <<>>
    /\ values = FORM_VALUES
    /\ rendered = FORM_VALUES
    /\ changes = <<>>
    /\ submits = <<>>

\* the effect body: read the current user, subscribe the listener
Mount(u) ==
    /\ phase = "constructed"
    /\ phase' = "mounted"
    /\ currentUser' = u
    /\ IF u # Null
       THEN /\ user' = u
            /\ userLoading' = FALSE
            /\ loggedIn' = TRUE
            /\ nav' = Append(nav, [target |-> NavTarget(u), by |-> 0])
       ELSE UNCHANGED <<user, userLoading, loggedIn, nav>>
    /\ UNCHANGED <<handlers, posts>>
    /\ UNCHANGED callVars
    /\ UNCHANGED formVars

\* the effect's cleanup: authListener.unsubscribe()
Unmount ==
    /\ phase = "mounted"
    /\ phase' = "unmounted"
    /\ UNCHANGED <<user, userLoading, loggedIn, currentUser, handlers, posts, nav>>
    /\ UNCHANGED callVars
    /\ UNCHANGED formVars

DeliverUpdateFirst(event, session) ==
    /\ phase = "mounted"
    /\ Len(handlers) < MaxNotifications
    /\ userLoading' = FALSE
    /\ handlers' = Append(handlers, [event |-> event, session |-> session, pc |-> "await"])
    /\ posts' = Append(posts, FetchRequest(Len(handlers) + 1, event, session))
    /\ user' = SessionUser(session)
    /\ nav' = Append(nav, [target |-> NavTarget(SessionUser(session)),
                           by |-> Len(handlers) + 1])
    /\ UNCHANGED <<phase, loggedIn, currentUser>>
    /\ UNCHANGED callVars
    /\ UNCHANGED formVars

\* the SDK calls the listener: it runs up to `await setServerSession(...)`
Deliver(event, session) ==
    /\ phase = "mounted"
    /\ Len(handlers) < MaxNotifications
    /\ userLoading' = FALSE
    /\ handlers' = Append(handlers, [event |-> event, session |-> session, pc |-> "await"])
    /\ posts' = Append(posts, FetchRequest(Len(handlers) + 1, event, session))
    /\ UNCHANGED <<phase, user, loggedIn, currentUser, nav>>
    /\ UNCHANGED callVars
    /\ UNCHANGED formVars

\* the POST of handler h resolves, and the rest of the listener runs
PostResolve(h) ==
    /\ h \in 1..Len(handlers)
    /\ handlers[h].pc = "await"
    /\ posts' = [posts EXCEPT ![h].status = "resolved"]
    /\ handlers' = [handlers EXCEPT ![h].pc = "done"]
    /\ LET u == SessionUser(handlers[h].session) IN
         /\ nav' = Append(nav, [target |-> NavTarget(u), by |-> h])
         /\ IF u # Null
            THEN /\ user' = u
                 /\ loggedIn' = TRUE
            ELSE /\ user' = Null
                 /\ UNCHANGED loggedIn
    /\ UNCHANGED <<phase, userLoading, currentUser>>
    /\ UNCHANGED callVars
    /\ UNCHANGED formVars

\* the POST of handler h rejects (network failure): the await throws and
\* the listener's promise rejects; nothing after the await runs
PostReject(h) ==
    /\ h \in 1..Len(handlers)
    /\ handlers[h].pc = "await"
    /\ posts' = [posts EXCEPT ![h].status = "rejected"]
    /\ handlers' = [handlers EXCEPT ![h].pc = "threw"]
    /\ UNCHANGED <<phase, user, userLoading, loggedIn, currentUser, nav>>
    /\ UNCHANGED callVars
    /\ UNCHANGED formVars

\* ------------------------------------------------- listener properties
Finished(h) == handlers[h].pc \in {"done", "threw"}
AllHandlersFinished == \A h \in 1..Len(handlers) : Finished(h)
PostsOf(h) == {p \in 1..Len(posts) : posts[p].handler = h}
NavsOf(h) == {k \in 1..Len(nav) : nav[k].by = h}
\* the user a Router.push was decided on: supabase.auth.user() at mount,
\* session.user in the listener
DecidedOn(k) ==
    IF nav[k].by = 0 THEN currentUser
    ELSE SessionUser(handlers[nav[k].by].session)

\* C1: once every listener invocation has finished, the context's user is
\* the user of the session of the most recently delivered notification
\* (null when it carried none), whatever the order or outcome of the POSTs.
C1_UserMirrorsLastNotification ==
    (Len(handlers) > 0 /\ AllHandlersFinished)
        => user = SessionUser(handlers[Len(handlers)].session)

\* C2: when the listener finishes handling a notification whose session has
\* no user, the context's user is null and Router.push(ROUTE_AUTH) was made
\* for it.
C2_SignedOutClearsAndNavigates ==
    [][\A h \in 1..Len(handlers) :
          (/\ ~Finished(h)
           /\ handlers'[h].pc \in {"done", "threw"}
           /\ SessionUser(handlers[h].session) = Null)
          => (/\ user' = Null
              /\ \E k \in 1..Len(nav') :
                    nav'[k].by = h /\ nav'[k].target = ROUTE_AUTH)]_vars

C6_OnePostPerNotification ==
    \A h \in 1..Len(handlers) :
        /\ Cardinality(PostsOf(h)) = 1
        /\ \A p \in PostsOf(h) :
              /\ posts[p].url = "/api/auth"
              /\ posts[p].method = "POST"
              /\ posts[p].credentials = "same-origin"
              /\ posts[p].body =
                    JSONStringify(handlers[h].event, handlers[h].session)

C6_UpdateOnlyAfterPost ==
    (phase # "constructed" /\ (user' # user \/ loggedIn' # loggedIn \/ nav' # nav))
        => \E h \in 1..Len(handlers) :
              /\ handlers[h].pc = "await"
              /\ handlers'[h].pc = "done"
              /\ \A p \in PostsOf(h) : posts'[p].status = "resolved"
              /\ \A k \in 1..Len(nav') : k > Len(nav) => nav'[k].by = h

\* C6: every notification delivered to the subscribed listener causes
\* exactly one POST to /api/auth whose body is JSON of that {event, session};
\* the user state changes and the navigation of a notification happen only
\* in the step that follows the resolution of its POST.
C6_PostBeforeUpdate ==
    /\ []C6_OnePostPerNotification
    /\ [][C6_UpdateOnlyAfterPost]_vars

C6_Witness ==
    /\ Len(handlers) = 2
    /\ handlers[1].pc = "await"
    /\ handlers[2].pc = "done"
    /\ NavsOf(2) # {}
    /\ NavsOf(1) = {}

\* C7: every Router.push goes to ROUTE_HOME exactly when the user it was
\* decided on is present and to ROUTE_AUTH exactly when that user is
\* absent, and to no other route.
C7_NavigationByUserPresence ==
    \A k \in 1..Len(nav) :
        /\ nav[k].target \in {ROUTE_HOME, ROUTE_AUTH}
        /\ nav[k].target = ROUTE_HOME <=> DecidedOn(k) # Null
        /\ nav[k].target = ROUTE_AUTH <=> DecidedOn(k) = Null

C7_Witness ==
    /\ \E k \in 1..Len(nav) : nav[k].by = 0 /\ nav[k].target = ROUTE_HOME
    /\ \E k \in 1..Len(nav) : nav[k].by > 0 /\ nav[k].target = ROUTE_AUTH
    /\ \E k \in 1..Len(nav) : nav[k].by > 0 /\ nav[k].target = ROUTE_HOME

\* C8: once every listener invocation has finished, loggedIn agrees with
\* the presence of the context's user.
C8_LoggedInIffUser ==
    AllHandlersFinished => (loggedIn <=> user # Null)

Next ==
    \/ \E u \in Users \cup {Null} : Mount(u)
    \/ Unmount
    \/ \E event \in Events, session \in Sessions : Deliver(event, session)
    \/ \E h \in 1..MaxNotifications : PostResolve(h)
    \/ \E h \in 1..MaxNotifications : PostReject(h)

Spec == Init /\ [][Next]_vars

\* ------------------------------------------- the context's operations
\* error.message of an error object
ErrorMessage(e) ==
    CASE e = "ApiError" -> "Invalid login credentials"
      [] e = "OAuthError" -> "Provider rejected the request"
      [] OTHER -> "Cannot read properties of null (reading 'email')"

\* error.error_description: only OAuth errors carry one
ErrorDescription(e) == IF e = "OAuthError" THEN "access_denied" ELSE Null

\* user.email
UserEmail(u) == u \o "@example.com"

\* a message is a string or, in the catch blocks, possibly the error object
StringMessage(str) == <<"string", str>>
ObjectMessage(e) == <<"Error", e>>

\* error.error_description || error
CaughtMessage(e) ==
    IF ErrorDescription(e) # Null /\ ErrorDescription(e) # ""
    THEN StringMessage(ErrorDescription(e))
    ELSE ObjectMessage(e)

Pending == [kind |-> "pending", error |-> Null, user |-> Null]

\* what an awaited SDK promise can settle to: a result object
\* {error, user}, or a rejection with an error
SdkOutcomes ==
    {[kind |-> "result", error |-> e, user |-> u] :
        e \in Errors \cup {Null}, u \in {Null, "u1"}}
      \cup {[kind |-> "throw", error |-> e, user |-> Null] : e \in Errors}

\* signOut's result has no user
SignOutOutcomes == {o \in SdkOutcomes : o.user = Null}

HandleMessage(c, message, type) ==
    Append(messages, [call |-> c, message |-> message, type |-> type])

\* the record of an invocation stopped at its await
NewCall(op, arg) == [op |-> op, payload |-> arg, pc |-> "await", outcome |-> Pending]

\* the call made on supabase.auth by invocation c
NewSdkCall(c, method, arg) == [call |-> c, method |-> method, arg |-> arg]

Awaiting(c, op) ==
    /\ c \in 1..Len(calls)
    /\ calls[c].op = op
    /\ calls[c].pc = "await"

\* signUp up to its await: setLoading(true), supabase.auth.signUp(payload)
signUp(payload) ==
    /\ Len(calls) < MaxCalls
    /\ loading' = TRUE
    /\ calls' = Append(calls, NewCall("signUp", payload))
    /\ sdkCalls' = Append(sdkCalls, NewSdkCall(Len(calls) + 1, "signUp", payload))
    /\ UNCHANGED messages
    /\ UNCHANGED authVars
    /\ UNCHANGED formVars

\* the rest of signUp once supabase.auth.signUp(payload) has settled
signUpSettled(c, o) ==
    /\ Awaiting(c, "signUp")
    /\ messages' =
         IF o.kind = "throw" THEN HandleMessage(c, CaughtMessage(o.error), "error")
         ELSE IF o.error # Null
              THEN HandleMessage(c, StringMessage(ErrorMessage(o.error)), "error")
              ELSE HandleMessage(c, StringMessage(
                     "Signup successful. Please check your inbox for a confirmation email!"),
                     "success")
    /\ loading' = FALSE
    /\ calls' = [calls EXCEPT ![c].pc = "done", ![c].outcome = o]
    /\ UNCHANGED sdkCalls
    /\ UNCHANGED authVars
    /\ UNCHANGED formVars

\* signIn up to its await: setLoading(true), supabase.auth.signIn(payload)
signIn(payload) ==
    /\ Len(calls) < MaxCalls
    /\ loading' = TRUE
    /\ calls' = Append(calls, NewCall("signIn", payload))
    /\ sdkCalls' = Append(sdkCalls, NewSdkCall(Len(calls) + 1, "signIn", payload))
    /\ UNCHANGED messages
    /\ UNCHANGED authVars
    /\ UNCHANGED formVars

signInSettledNoFinally(c, o) ==
    /\ Awaiting(c, "signIn")
    /\ messages' =
         IF o.kind = "throw" THEN HandleMessage(c, CaughtMessage(o.error), "error")
         ELSE IF o.error # Null
              THEN HandleMessage(c, StringMessage(ErrorMessage(o.error)), "error")
              ELSE IF o.user = Null
                   THEN HandleMessage(c, CaughtMessage("TypeError"), "error")
                   ELSE HandleMessage(c, StringMessage("Welcome, " \o UserEmail(o.user)),
                                      "success")
    /\ loading' = IF o.kind = "throw" \/ (o.error = Null /\ o.user = Null)
                  THEN loading ELSE FALSE
    /\ calls' = [calls EXCEPT ![c].pc = "done", ![c].outcome = o]
    /\ UNCHANGED sdkCalls
    /\ UNCHANGED authVars
    /\ UNCHANGED formVars

\* the rest of signIn once supabase.auth.signIn(payload) has settled;
\* `user.email` throws a TypeError inside the try when the result has
\* neither an error nor a user
signInSettled(c, o) ==
    /\ Awaiting(c, "signIn")
    /\ messages' =
         IF o.kind = "throw" THEN HandleMessage(c, CaughtMessage(o.error), "error")
         ELSE IF o.error # Null
              THEN HandleMessage(c, StringMessage(ErrorMessage(o.error)), "error")
              ELSE IF o.user = Null
                   THEN HandleMessage(c, CaughtMessage("TypeError"), "error")
                   ELSE HandleMessage(c, StringMessage("Welcome, " \o UserEmail(o.user)),
                                      "success")
    /\ loading' = FALSE
    /\ calls' = [calls EXCEPT ![c].pc = "done", ![c].outcome = o]
    /\ UNCHANGED sdkCalls
    /\ UNCHANGED authVars
    /\ UNCHANGED formVars

\* signInWithGithub up to its await: supabase.auth.signIn({ provider: 'github' })
signInWithGithub ==
    /\ Len(calls) < MaxCalls
    /\ UNCHANGED loading
    /\ calls' = Append(calls, NewCall("signInWithGithub", [provider |-> "github"]))
    /\ sdkCalls' = Append(sdkCalls, NewSdkCall(Len(calls) + 1, "signIn", [provider |-> "github"]))
    /\ UNCHANGED messages
    /\ UNCHANGED authVars
    /\ UNCHANGED formVars

\* no try/catch and the result is dropped: a rejection escapes the function
signInWithGithubSettled(c, o) ==
    /\ Awaiting(c, "signInWithGithub")
    /\ calls' = [calls EXCEPT ![c].pc = IF o.kind = "throw" THEN "escaped" ELSE "done",
                              ![c].outcome = o]
    /\ UNCHANGED <<loading, sdkCalls, messages>>
    /\ UNCHANGED authVars
    /\ UNCHANGED formVars

\* signOut up to its await: supabase.auth.signOut()
signOut ==
    /\ Len(calls) < MaxCalls
    /\ UNCHANGED loading
    /\ calls' = Append(calls, NewCall("signOut", <<>>))
    /\ sdkCalls' = Append(sdkCalls, NewSdkCall(Len(calls) + 1, "signOut", <<>>))
    /\ UNCHANGED messages
    /\ UNCHANGED authVars
    /\ UNCHANGED formVars

signOutSettled(c, o) ==
    /\ Awaiting(c, "signOut")
    /\ calls' = [calls EXCEPT ![c].pc = IF o.kind = "throw" THEN "escaped" ELSE "done",
                              ![c].outcome = o]
    /\ UNCHANGED <<loading, sdkCalls, messages>>
    /\ UNCHANGED authVars
    /\ UNCHANGED formVars

\* ------------------------------------------- properties of the operations
MessagesOf(c) == {k \in 1..Len(messages) : messages[k].call = c}
Credentialed(c) == calls[c].op \in {"signUp", "signIn"}
Failed(o) == o.kind = "throw" \/ (o.kind = "result" /\ o.error # Null)

\* C4: every signUp or signIn whose SDK request returned a result shows
\* exactly one message: of type 'success' when the result has no error, of
\* type 'error' with the text error.message when it has one.
C4_OneMessagePerOutcome ==
    \A c \in 1..Len(calls) :
        (Credentialed(c) /\ calls[c].outcome.kind = "result")
        => /\ Cardinality(MessagesOf(c)) = 1
           /\ \A k \in MessagesOf(c) :
                 IF calls[c].outcome.error = Null
                 THEN messages[k].type = "success"
                 ELSE /\ messages[k].type = "error"
                      /\ messages[k].message =
                            StringMessage(ErrorMessage(calls[c].outcome.error))

\* C5: for each of the four operations, an SDK call that returned an error
\* result or rejected does not escape the operation, and an error message
\* was passed to handleMessage.
C5_FailuresCaughtAndShown ==
    \A c \in 1..Len(calls) :
        Failed(calls[c].outcome)
        => /\ calls[c].pc # "escaped"
           /\ \E k \in MessagesOf(c) : messages[k].type = "error"

C9_IdleMeansNotLoading ==
    (\A c \in 1..Len(calls) : Credentialed(c) => calls[c].pc # "await")
        => loading = FALSE

C9_LoadingBracketsRequest ==
    /\ \A c \in 1..Len(calls') :
          (c > Len(calls) /\ calls'[c].op \in {"signUp", "signIn"})
          => /\ loading' = TRUE
             /\ \E k \in 1..Len(sdkCalls') :
                   /\ k > Len(sdkCalls)
                   /\ sdkCalls'[k].call = c
                   /\ sdkCalls'[k].method = calls'[c].op
    /\ \A c \in 1..Len(calls) :
          (Credentialed(c) /\ calls[c].pc = "await" /\ calls'[c].pc # "await")
          => loading' = FALSE

\* C9: signUp and signIn set loading to true in the step that issues the
\* SDK request and set it to false when the request settles, whatever the
\* outcome; loading is false whenever no signUp or signIn is in flight.
C9_LoadingReset ==
    /\ []C9_IdleMeansNotLoading
    /\ [][C9_LoadingBracketsRequest]_vars

C9_Witness ==
    /\ loading = FALSE
    /\ \E c \in 1..Len(calls) :
          /\ calls[c].op = "signIn"
          /\ calls[c].pc = "done"
          /\ calls[c].outcome.kind = "throw"
    /\ \E c \in 1..Len(calls) :
          /\ calls[c].op = "signUp"
          /\ calls[c].pc = "done"
          /\ calls[c].outcome.kind = "result"

NextCalls ==
    \/ \E payload \in Payloads : signUp(payload)
    \/ \E c \in 1..MaxCalls, o \in SdkOutcomes : signUpSettled(c, o)
    \/ \E payload \in Payloads : signIn(payload)
    \/ \E c \in 1..MaxCalls, o \in SdkOutcomes : signInSettled(c, o)
    \/ signInWithGithub
    \/ \E c \in 1..MaxCalls, o \in SdkOutcomes : signInWithGithubSettled(c, o)
    \/ signOut
    \/ \E c \in 1..MaxCalls, o \in SignOutOutcomes : signOutSettled(c, o)

SpecCalls == Init /\ [][NextCalls]_vars

\* ------------------------------------------------------ the form page
\* setValues({ ...values, [name]: value }) with the `values` of the render
\* that created this handleChange
handleChange(name, value) ==
    /\ Len(changes) < MaxChanges
    /\ values' = [n \in (DOMAIN rendered) \cup {name} |->
                     IF n = name THEN value ELSE rendered[n]]
    /\ changes' = Append(changes, [name |-> name, value |-> value])
    /\ UNCHANGED <<rendered, submits>>
    /\ UNCHANGED authVars
    /\ UNCHANGED callVars

\* React re-renders IndexPage after a state change: useState hands the
\* current state to new closures
Render ==
    /\ rendered # values
    /\ rendered' = values
    /\ UNCHANGED <<values, changes, submits>>
    /\ UNCHANGED authVars
    /\ UNCHANGED callVars

\* the Sign Up button's onClick
Submit ==
    /\ Len(submits) < MaxSubmits
    /\ submits' = Append(submits, rendered)
    /\ messages' = HandleMessage(0,
           StringMessage("will sign up with " \o rendered["email"]), Null)
    /\ UNCHANGED <<values, rendered, changes>>
    /\ UNCHANGED <<loading, calls, sdkCalls>>
    /\ UNCHANGED authVars

\* ------------------------------------------- properties of the form page
RECURSIVE ApplyChanges(_, _)
\* initial values with each named field replaced by its latest event's value
ApplyChanges(v, evs) ==
    IF evs = <<>> THEN v
    ELSE ApplyChanges([n \in (DOMAIN v) \cup {Head(evs).name} |->
                          IF n = Head(evs).name THEN Head(evs).value ELSE v[n]],
                      Tail(evs))

\* C3: every press of the submit button results in a supabase.auth.signUp
\* call whose payload is exactly the email and password of the form.
C3_SubmitCallsSignUp ==
    \A i \in 1..Len(submits) :
        \E k \in 1..Len(sdkCalls) :
            /\ sdkCalls[k].method = "signUp"
            /\ sdkCalls[k].arg = [email |-> submits[i]["email"],
                                  password |-> submits[i]["password"]]

\* C10: after any sequence of change events, re-rendered in between or not,
\* the form values are the initial values with each named field replaced by
\* the value of the latest event for that name.
C10_OnlyNamedFieldChanges ==
    values = ApplyChanges(FORM_VALUES, changes)

NextForm ==
    \/ \E name \in FieldNames, value \in FieldValues : handleChange(name, value)
    \/ Render
    \/ Submit

SpecForm == Init /\ [][NextForm]_vars

====
